---------------------------- MODULE Spec2Model ----------------------------
(***************************************************************************)
(* VCFcomparator (src/vcfcomparator.py): the directional comparison        *)
(* compareVCFs, the bidirectional driver parseVCFs and the report of       *)
(* summary, as a state machine over two coordinate-sorted variant files.   *)
(*                                                                         *)
(* A VCF record is a TLA+ record.  REF and ALT are sequences of one-char   *)
(* strings (one alternate allele per record), FILTER is the sequence of    *)
(* failing filter names (<<>> is PASS), CIPOS/CIEND/END are the INFO       *)
(* values as sequences (<<>> when the key is absent), and kind is the      *)
(* classification PyVCF derives from REF/ALT/INFO (is_snp, is_indel,       *)
(* is_sv).  An optional record (recB, snv_recB) is a sequence of length 0  *)
(* or 1.  Scores are exact fractions <<numerator, denominator>>; only the  *)
(* unweighted score (weight=False, the default of parseVCFs) is modelled.  *)
(***************************************************************************)
EXTENDS Integers, Sequences, FiniteSets, TLC

\* ------------------------------------------------------------------ bounds

\* Most records in one input file.
MaxLen == 2

\* Largest interval coordinate of the scoring specification.
MaxCoord == 4

\* ------------------------------------------------------- program constants

\* get_conf_interval(rec, w_indel=50) and compareVCFs(..., w_indel=50, ...)
W_INDEL == 50

\* compareVCFs(..., w_sv=1000, ...)
W_SV == 1000

\* ------------------------------------------------------------ the records

VTypes == {"SNV", "INDEL", "CNV", "SV"}

ChromOrder == <<"chr1", "chr2", "chr3">>

ChromIdx(c) == CHOOSE k \in 1..Len(ChromOrder) : ChromOrder[k] = c

Abs(x) == IF x < 0 THEN -x ELSE x

Min(x, y) == IF x < y THEN x ELSE y

Max(x, y) == IF x > y THEN x ELSE y

MkRec(chrom, pos, id, ref, alt, kind, svtype, cipos, end, filter, ss) ==
    [CHROM |-> chrom, POS |-> pos, ID |-> id, REF |-> ref, ALT |-> alt,
     kind |-> kind, SVTYPE |-> svtype, CIPOS |-> cipos, CIEND |-> <<>>,
     END |-> end, FILTER |-> filter, SS |-> ss,
     SOMATIC |-> FALSE, Germline |-> FALSE]

is_snp(rec) == rec.kind = "snp"

is_indel(rec) == rec.kind = "indel"

is_sv(rec) == rec.kind = "sv"

\* PyVCF: start is POS - 1 and end is start + len(REF).
RecStart(rec) == rec.POS - 1

RecEnd(rec) == RecStart(rec) + Len(rec.REF)

\* ----------------------------------------------------- confidence interval

CiOffsets(ci) ==
    IF Len(ci) = 0 THEN <<0, 0>>
    ELSE IF Len(ci) = 2 THEN <<Abs(ci[1]), Abs(ci[2])>>
    ELSE <<Abs(ci[1]), Abs(ci[1])>>

get_conf_interval(rec) ==
    LET cipos == CiOffsets(rec.CIPOS)
        ciend == CiOffsets(rec.CIEND)
        end0  == IF Len(rec.END) > 0 THEN rec.END[1] + ciend[2]
                                     ELSE rec.POS + 1 + cipos[2]
        pad   == IF is_indel(rec) THEN W_INDEL ELSE 0
    IN  <<rec.POS - (cipos[1] + pad), end0 + pad>>

\* A faulty get_overlap_coords, with min and max exchanged.
get_overlap_coords_swapped(iv_a, iv_b) ==
    IF Max(iv_a[2], iv_b[2]) - Min(iv_a[1], iv_b[1]) > 0
    THEN <<Min(iv_a[1], iv_b[1]), Max(iv_a[2], iv_b[2])>>
    ELSE <<0, 0>>

get_overlap_coords(iv_a, iv_b) ==
    IF Min(iv_a[2], iv_b[2]) - Max(iv_a[1], iv_b[1]) > 0
    THEN <<Max(iv_a[1], iv_b[1]), Min(iv_a[2], iv_b[2])>>
    ELSE <<0, 0>>

\* The unweighted interval score of two intervals: ok is FALSE when one of
\* the three assertions of Variant.interval_score fails, and then no score
\* is returned.
IvScore(iv_a, iv_b) ==
    LET ol_coords == get_overlap_coords(iv_a, iv_b)
        ol_width  == ol_coords[2] - ol_coords[1]
        len_a     == iv_a[2] - iv_a[1]
        len_b     == iv_b[2] - iv_b[1]
    IN  IF ol_width > 0 /\ len_a > 0 /\ len_b > 0
        THEN [ok |-> TRUE, num |-> 2 * ol_width, den |-> len_a + len_b]
        ELSE [ok |-> FALSE, num |-> 0, den |-> 1]

interval_score(recA, recB) ==
    IvScore(get_conf_interval(recA), get_conf_interval(recB))

\* ------------------------------------------------------ matching predicates

IsUpper(c) == c \in {"A", "C", "G", "T", "N"}

orientSV(alt) ==
    IF Len(alt) >= 2 /\ IsUpper(alt[1]) /\ alt[2] = "[" THEN <<"right_of_p_after_t">>
    ELSE IF Len(alt) >= 2 /\ IsUpper(alt[1]) /\ alt[2] = "]" THEN <<"left_of_p_after_t">>
    ELSE IF Len(alt) >= 1 /\ alt[1] = "]" THEN <<"left_of_p_before_t">>
    ELSE IF Len(alt) >= 1 /\ alt[1] = "[" THEN <<"right_of_p_before_t">>
    ELSE alt

\* sum(get_overlap_coords(...)) > 0.0
vcfIntervalMatch(recA, recB) ==
    LET ol == get_overlap_coords(get_conf_interval(recA), get_conf_interval(recB))
    IN  ol[1] + ol[2] > 0

vcfVariantMatch(recA, recB) ==
    \/ /\ is_snp(recA) /\ is_snp(recB)
       /\ recA.POS = recB.POS /\ recA.REF = recB.REF /\ recA.ALT = recB.ALT
    \/ /\ is_indel(recA) /\ is_indel(recB)
       /\ recA.REF = recB.REF /\ recA.ALT = recB.ALT
    \/ /\ is_sv(recA) /\ is_sv(recB)
       /\ recA.SVTYPE = "BND" /\ recB.SVTYPE = "BND"
       /\ orientSV(recA.ALT) = orientSV(recB.ALT)
       /\ vcfIntervalMatch(recA, recB)

sv_uid(rec) ==
    <<rec.CHROM, rec.POS, rec.ID, rec.REF, rec.ALT, rec.FILTER,
      rec.SVTYPE, rec.CIPOS, rec.CIEND, rec.END, rec.SS, rec.SOMATIC, rec.Germline>>


\* ------------------------------------------------------------ Variant/Match

Variant(recA) == [recA |-> recA, recB |-> <<>>, altmatch |-> <<>>]

\* Variant.set_left: sets record B only if it is not already set.
set_left(v, rec) == IF v.recB = <<>> THEN [v EXCEPT !.recB = <<rec>>] ELSE v

\* A faulty add_alt: the later candidate replaces recB.
add_alt_as_primary(v, rec) == [v EXCEPT !.recB = <<rec>>]

\* variant.altmatch.append(recB)
add_alt(v, rec) == [v EXCEPT !.altmatch = Append(@, rec)]

matched(v) == v.recB # <<>>

has_somatic(v) ==
    IF ~matched(v) THEN v.recA.SS = "Somatic"
    ELSE "Somatic" \in {v.recA.SS, v.recB[1].SS}

both_somatic(v) ==
    /\ matched(v)
    /\ \/ v.recA.SS = "Somatic" /\ v.recB[1].SS = "Somatic"
       \/ v.recA.SOMATIC /\ v.recB[1].SOMATIC

both_germline(v) ==
    /\ matched(v)
    /\ \/ v.recA.SS = "Germline" /\ v.recB[1].SS = "Germline"
       \/ v.recA.Germline /\ v.recB[1].Germline

has_pass(v) ==
    IF ~matched(v) THEN v.recA.FILTER = <<>>
    ELSE v.recA.FILTER = <<>> \/ v.recB[1].FILTER = <<>>

both_pass(v) ==
    matched(v) /\ v.recA.FILTER = <<>> /\ v.recB[1].FILTER = <<>>

\* SNV.score / INDEL.score / SV.score / CNV.score, unweighted.
score(vt, v) ==
    IF ~matched(v) THEN [ok |-> TRUE, num |-> 0, den |-> 1]
    ELSE IF vt = "SNV" THEN [ok |-> TRUE, num |-> 1, den |-> 1]
    ELSE interval_score(v.recA, v.recB[1])

\* ------------------------------------------------------------- Comparison

EmptyComparison == [vt \in VTypes |-> <<>>]

RECURSIVE GCD(_, _)
GCD(a, b) == IF b = 0 THEN a ELSE GCD(b, a % b)

FracAdd(x, y) ==
    LET n == x[1] * y[2] + y[1] * x[2]
        d == x[2] * y[2]
        g == GCD(n, d)
    IN  <<n \div g, d \div g>>

RECURSIVE SumFrac(_)
SumFrac(s) ==
    IF s = <<>> THEN <<0, 1>>
    ELSE FracAdd(<<Head(s).num, Head(s).den>>, SumFrac(Tail(s)))

count_matched(c, vt) == Cardinality({k \in DOMAIN c[vt] : matched(c[vt][k])})

altmatched(c, vt) ==
    LET RECURSIVE total(_)
        total(s) == IF s = <<>> THEN 0 ELSE Len(Head(s).altmatch) + total(Tail(s))
    IN  total(c[vt])

count_agree_somatic(c, vt) ==
    Cardinality({k \in DOMAIN c[vt] : both_somatic(c[vt][k])})

count_agree_germline(c, vt) ==
    Cardinality({k \in DOMAIN c[vt] : both_germline(c[vt][k])})

count_disagree_somatic(c, vt) ==
    Cardinality({k \in DOMAIN c[vt] :
        matched(c[vt][k]) /\ has_somatic(c[vt][k]) /\ ~both_somatic(c[vt][k])})

count_agree_pass(c, vt) ==
    Cardinality({k \in DOMAIN c[vt] : both_pass(c[vt][k])})

\* What the docstring of count_agree_fail describes: the matches whose two
\* calls both failed a filter.
count_agree_fail_matched_only(c, vt) ==
    Cardinality({k \in DOMAIN c[vt] : matched(c[vt][k]) /\ ~has_pass(c[vt][k])})

count_agree_fail(c, vt) == Cardinality({k \in DOMAIN c[vt] : ~has_pass(c[vt][k])})

count_disagree_pass(c, vt) ==
    Cardinality({k \in DOMAIN c[vt] :
        matched(c[vt][k]) /\ has_pass(c[vt][k]) /\ ~both_pass(c[vt][k])})

Scores(c, vt) == [k \in DOMAIN c[vt] |-> score(vt, c[vt][k])]

\* sum_scores raises AssertionError when a matched interval pair fails an
\* assertion of interval_score.
ScoresOk(c, vt) == \A k \in DOMAIN c[vt] : Scores(c, vt)[k].ok

sum_scores(c, vt) == SumFrac(Scores(c, vt))

\* One row of the table summary writes.
SummaryRow(compAB, compBA, vt) ==
    LET n_A      == Len(compAB[vt])
        n_B      == Len(compBA[vt])
        n_shared == count_matched(compAB, vt)
    IN  [A_only           |-> n_A - n_shared,
         A_alt            |-> altmatched(compAB, vt),
         B_only           |-> n_B - n_shared,
         B_alt            |-> altmatched(compBA, vt),
         shared           |-> n_shared,
         agree_somatic    |-> count_agree_somatic(compAB, vt),
         agree_germline   |-> count_agree_germline(compAB, vt),
         disagree_somatic |-> count_disagree_somatic(compAB, vt),
         agree_pass       |-> count_agree_pass(compAB, vt),
         agree_fail       |-> count_agree_fail(compAB, vt),
         disagree_pass    |-> count_disagree_pass(compAB, vt),
         sum_score        |-> sum_scores(compAB, vt)]

\* The variant types for which summary writes "warning: overlap was not
\* symmetric" to stderr.
AsymmetricTypes(compAB, compBA) ==
    {vt \in VTypes : count_matched(compAB, vt) # count_matched(compBA, vt)}

\* ------------------------------------------------------------- the sources

\* h_interval_vcfB.fetch(chrom, start, end) of PyVCF/tabix: the records of
\* the file on chrom whose extent intersects [start, end], in file order.
Fetch(src, chrom, w_start, w_end) ==
    SelectSeq(src, LAMBDA r : /\ r.CHROM = chrom
                              /\ RecStart(r) <= w_end
                              /\ RecEnd(r) >= w_start)

SortKeyLeq(r1, r2) ==
    \/ ChromIdx(r1.CHROM) < ChromIdx(r2.CHROM)
    \/ ChromIdx(r1.CHROM) = ChromIdx(r2.CHROM) /\ r1.POS <= r2.POS

IsSorted(s) == \A j, k \in DOMAIN s : j < k => SortKeyLeq(s[j], s[k])

\* The coordinate-sorted files of at most MaxLen records drawn from U.
SortedFiles(U) ==
    {s \in UNION {[1..n -> U] : n \in 0..MaxLen} : IsSorted(s)}


\* ------------------------------------------------------------------ state

VARIABLES
    A,          \* the first input file (vcf_list[0]), a sequence of records
    B,          \* the second input file (vcf_list[1])
    mode,       \* "parse": parseVCFs (A->B, B->A, summary);
                \* "equiv": compareVCFs(A, B, faster_snv=True), then
                \*          compareVCFs(A, B, faster_snv=False)
    pass,       \* 1 or 2: which call of compareVCFs is running
    pc,         \* position in the program
    i,          \* index in h_vcfA of the record the for loop is at
    vtype,      \* vtype of the current record ("" is None)
    variant,    \* the current Variant, <<>> between records
    match,      \* the match flag of the loop body
    cands,      \* what is left of the fetch() result being iterated
    used,       \* used_B_interval: the sv_uid keys claimed in this pass
    snv_recB,   \* the cursor record, <<>> while the name is unbound
    it,         \* records h_snv_vcfB has yielded so far
    stopped,    \* h_snv_vcfB has raised StopIteration
    cmp,        \* the Comparison of the running pass
    res1,       \* the Comparison returned by the first pass
    report,     \* the table summary wrote, <<>> before
    warned,     \* variant types with the asymmetry warning on stderr
    err         \* the uncaught exception that ended the run, "" if none

vars == <<A, B, mode, pass, pc, i, vtype, variant, match, cands, used,
          snv_recB, it, stopped, cmp, res1, report, warned, err>>

\* faster_snv of the running call.
Faster == mode = "equiv" /\ pass = 1

\* h_vcfA and h_interval_vcfB of the running call.
Src == IF mode = "parse" /\ pass = 2 THEN B ELSE A

Dst == IF mode = "parse" /\ pass = 2 THEN A ELSE B

IntervalTypes == {"INDEL", "SV", "CNV"}

\* The classification at the head of the loop body; "" is None.
Classify(recA) ==
    IF is_snp(recA) THEN "SNV"
    ELSE IF is_indel(recA) THEN "INDEL"
    ELSE IF is_sv(recA) /\ recA.SVTYPE = "BND" THEN "SV"
    ELSE ""

Window(vt) == IF vt = "INDEL" THEN W_INDEL ELSE IF vt = "SV" THEN W_SV ELSE 0

\* w_start and w_end of the region query, lines 380-383.
QueryWindow(recA, vt) ==
    LET w == Window(vt)
    IN  <<IF RecStart(recA) - w < 1 THEN 1 ELSE RecStart(recA) - w,
          RecEnd(recA) + w>>

UsesFetch(vt) ==
    \/ ~Faster /\ vt # ""
    \/ Faster /\ vt \in IntervalTypes

\* Start of a call of compareVCFs: everything local to the call.
PassInit ==
    /\ pc = "start"
    /\ i = 1
    /\ vtype = ""
    /\ variant = <<>>
    /\ match = FALSE
    /\ cands = <<>>
    /\ used = {}
    /\ snv_recB = <<>>
    /\ it = 0
    /\ stopped = FALSE
    /\ cmp = EmptyComparison

\* The same, as the effect of the caller starting the next call.
PassReset ==
    /\ pc' = "start"
    /\ i' = 1
    /\ vtype' = ""
    /\ variant' = <<>>
    /\ match' = FALSE
    /\ cands' = <<>>
    /\ used' = {}
    /\ snv_recB' = <<>>
    /\ it' = 0
    /\ stopped' = FALSE
    /\ cmp' = EmptyComparison

InitWith(U, m) ==
    /\ A \in SortedFiles(U)
    /\ B \in SortedFiles(U)
    /\ mode = m
    /\ pass = 1
    /\ PassInit
    /\ res1 = EmptyComparison
    /\ report = <<>>
    /\ warned = {}
    /\ err = ""


\* ---------------------------------------------------------------- actions

\* Index of the first SNV of a file, 0 if it has none.
FirstSnp(f) ==
    IF \E k \in DOMAIN f : is_snp(f[k])
    THEN CHOOSE k \in DOMAIN f : is_snp(f[k]) /\ \A j \in 1..(k - 1) : ~is_snp(f[j])
    ELSE 0

\* compareVCFs, lines 339-352: open h_snv_vcfB and move it to the first SNV.
\* Without an SNV the iterator runs out: snv_recB keeps the last record read,
\* and stays unbound when the file is empty.
InitSNVIterator ==
    /\ pc = "start"
    /\ LET k == FirstSnp(Dst)
       IN  IF k > 0
           THEN /\ snv_recB' = <<Dst[k]>>
                /\ it' = k
                /\ stopped' = FALSE
           ELSE /\ snv_recB' = IF Dst = <<>> THEN <<>> ELSE <<Dst[Len(Dst)]>>
                /\ it' = Len(Dst)
                /\ stopped' = TRUE
    /\ pc' = "for"
    /\ UNCHANGED <<A, B, mode, pass, i, vtype, variant, match, cands, used,
                   cmp, res1, report, warned, err>>

\* cmp.vartype[vtype].append(variant), and on to the next record of h_vcfA.
AppendAndAdvance(v) ==
    /\ cmp' = [cmp EXCEPT ![vtype] = Append(@, v)]
    /\ i' = i + 1
    /\ vtype' = ""
    /\ variant' = <<>>
    /\ match' = FALSE
    /\ cands' = <<>>
    /\ pc' = "for"

\* The head of the loop body, lines 354-385 and 403-407: classify recA, then
\* either start the region query, or (faster_snv, SNV) test the cursor record.
NextRecord ==
    /\ pc = "for"
    /\ i <= Len(Src)
    /\ LET recA == Src[i]
           vt   == Classify(recA)
           win  == QueryWindow(recA, vt)
       IN  IF vt = ""
           THEN /\ i' = i + 1
                /\ UNCHANGED <<pc, vtype, variant, match, cands, cmp, err>>
           ELSE IF UsesFetch(vt)
           THEN /\ vtype' = vt
                /\ variant' = <<Variant(recA)>>
                /\ match' = FALSE
                /\ cands' = Fetch(Dst, recA.CHROM, win[1], win[2])
                /\ pc' = "fetch"
                /\ UNCHANGED <<i, cmp, err>>
           ELSE IF snv_recB = <<>>
           THEN /\ err' = "NameError"
                /\ pc' = "error"
                /\ vtype' = vt
                /\ variant' = <<Variant(recA)>>
                /\ UNCHANGED <<i, match, cands, cmp>>
           ELSE IF vcfVariantMatch(recA, snv_recB[1])
           THEN /\ cmp' = [cmp EXCEPT ![vt] =
                              Append(@, set_left(Variant(recA), snv_recB[1]))]
                /\ i' = i + 1
                /\ UNCHANGED <<pc, vtype, variant, match, cands, err>>
           ELSE /\ vtype' = vt
                /\ variant' = <<Variant(recA)>>
                /\ match' = FALSE
                /\ pc' = "while"
                /\ UNCHANGED <<i, cands, cmp, err>>
    /\ UNCHANGED <<A, B, mode, pass, used, snv_recB, it, stopped, res1,
                   report, warned>>

\* A faulty Claimed: the ledger is never consulted.
ClaimedNever(vt, recB) == FALSE

\* vtype in ('INDEL','SV','CNV') and sv_uid(recB) in used_B_interval
Claimed(vt, recB) == vt \in IntervalTypes /\ sv_uid(recB) \in used

\* One iteration of the loop over the fetch() result, lines 385-398.
Candidate ==
    /\ pc = "fetch"
    /\ cands # <<>>
    /\ LET recB == Head(cands)
           v    == variant[1]
       IN  IF ~vcfVariantMatch(v.recA, recB)
           THEN UNCHANGED <<variant, match, used>>
           ELSE IF match
           THEN /\ variant' = <<add_alt(v, recB)>>
                /\ UNCHANGED <<match, used>>
           ELSE IF Claimed(vtype, recB)
           THEN /\ variant' = <<add_alt(v, recB)>>
                /\ UNCHANGED <<match, used>>
           ELSE /\ variant' = <<set_left(v, recB)>>
                /\ used' = used \cup {sv_uid(recB)}
                /\ match' = TRUE
    /\ cands' = Tail(cands)
    /\ UNCHANGED <<A, B, mode, pass, pc, i, vtype, snv_recB, it, stopped,
                   cmp, res1, report, warned, err>>

\* The fetch() result is used up: line 400.
AppendMatch ==
    /\ pc = "fetch"
    /\ cands = <<>>
    /\ AppendAndAdvance(variant[1])
    /\ UNCHANGED <<A, B, mode, pass, used, snv_recB, it, stopped, res1,
                   report, warned, err>>

\* while snv_recB.CHROM != recA.CHROM or snv_recB.POS < recA.POS
CursorTrails ==
    \/ snv_recB[1].CHROM # variant[1].recA.CHROM
    \/ snv_recB[1].POS < variant[1].recA.POS

\* One iteration of the cursor loop, lines 408-413: the next record of
\* h_snv_vcfB, taken as recB if it matches.
CursorNext ==
    /\ pc = "while"
    /\ CursorTrails
    /\ it < Len(Dst)
    /\ LET nxt == Dst[it + 1]
       IN  /\ snv_recB' = <<nxt>>
           /\ it' = it + 1
           /\ IF vcfVariantMatch(variant[1].recA, nxt)
              THEN /\ variant' = <<set_left(variant[1], nxt)>>
                   /\ match' = TRUE
              ELSE UNCHANGED <<variant, match>>
    /\ UNCHANGED <<A, B, mode, pass, pc, i, vtype, cands, used, stopped, cmp,
                   res1, report, warned, err>>

\* h_snv_vcfB.next() raises StopIteration, lines 414-416: break, append.
CursorStop ==
    /\ pc = "while"
    /\ CursorTrails
    /\ it >= Len(Dst)
    /\ stopped' = TRUE
    /\ AppendAndAdvance(variant[1])
    /\ UNCHANGED <<A, B, mode, pass, used, snv_recB, it, res1, report,
                   warned, err>>

\* The cursor no longer trails recA: the loop ends, line 416 appends.
CursorExit ==
    /\ pc = "while"
    /\ ~CursorTrails
    /\ AppendAndAdvance(variant[1])
    /\ UNCHANGED <<A, B, mode, pass, used, snv_recB, it, stopped, res1,
                   report, warned, err>>

\* return cmp, line 418.  After the first call the caller keeps the result
\* and starts the second call on freshly opened files.
PassReturn ==
    /\ pc = "for"
    /\ i > Len(Src)
    /\ IF pass = 1
       THEN /\ res1' = cmp
            /\ pass' = 2
            /\ PassReset
       ELSE /\ pc' = IF mode = "parse" THEN "summary" ELSE "done"
            /\ UNCHANGED <<pass, i, vtype, variant, match, cands, used,
                           snv_recB, it, stopped, cmp, res1>>
    /\ UNCHANGED <<A, B, mode, report, warned, err>>

\* summary(resultAB, resultBA), lines 449-493.  The table is written after
\* the loop over the variant types, so a failed assertion of interval_score
\* leaves no table; the warnings of the types the loop reached before it
\* (in the dictionary's order) are on stderr.
Summary ==
    /\ pc = "summary"
    /\ IF \A vt \in VTypes : ScoresOk(res1, vt)
       THEN /\ report' = <<[vt \in VTypes |-> SummaryRow(res1, cmp, vt)]>>
            /\ warned' = AsymmetricTypes(res1, cmp)
            /\ pc' = "done"
            /\ err' = err
       ELSE /\ err' = "AssertionError"
            /\ pc' = "error"
            /\ warned' \in SUBSET AsymmetricTypes(res1, cmp)
            /\ UNCHANGED report
    /\ UNCHANGED <<A, B, mode, pass, i, vtype, variant, match, cands, used,
                   snv_recB, it, stopped, cmp, res1>>


\* ------------------------------------------------------- the input records

Snv(chrom, pos, alt, filter, ss) ==
    MkRec(chrom, pos, ".", <<"A">>, <<alt>>, "snp", "", <<>>, <<>>, filter, ss)

Indel(chrom, pos, end) ==
    MkRec(chrom, pos, ".", <<"A", "T">>, <<"A">>, "indel", "", <<>>, end, <<>>, "")

Bnd(chrom, pos, alt, cipos, end) ==
    MkRec(chrom, pos, ".", <<"N">>, alt, "sv", "BND", cipos, end, <<>>, "")

Cnv(chrom, pos, end) ==
    MkRec(chrom, pos, ".", <<"N">>, <<"<", "C", "N", "V", ">">>, "sv", "CNV",
          <<>>, end, <<>>, "")

BndAfter == <<"N", "[", "p", "[">>

BndBefore == <<"]", "p", "]", "N">>

\* One chromosome, every variant type: an SNV called twice (once passing
\* and somatic, once filtered and germline), two INDELs with the same alleles 40 bases apart,
\* breakends with and without CIPOS and of either orientation, a breakend
\* and an INDEL whose END lies before POS, a CNV.
UMain ==
    {Snv("chr1", 40, "G", <<>>, "Somatic"),
     Snv("chr1", 40, "G", <<"q10">>, "Germline"),
     Indel("chr1", 40, <<>>),
     Indel("chr1", 80, <<>>),
     Bnd("chr1", 40, BndAfter, <<>>, <<>>),
     Bnd("chr1", 80, BndAfter, <<-45, 45>>, <<>>),
     Bnd("chr1", 80, BndBefore, <<>>, <<>>),
     Bnd("chr1", 80, BndAfter, <<>>, <<10>>),
     Indel("chr1", 200, <<10>>),
     Cnv("chr1", 40, <<140>>)}

\* The same calls on several chromosomes, for the SNV cursor.
UFast ==
    {Snv("chr1", 40, "G", <<>>, ""),
     Snv("chr1", 80, "G", <<>>, ""),
     Snv("chr2", 40, "G", <<>>, ""),
     Snv("chr2", 40, "G", <<"q10">>, ""),
     Snv("chr3", 40, "G", <<>>, ""),
     Snv("chr3", 80, "G", <<>>, ""),
     Indel("chr1", 40, <<>>)}

\* The matching of SNVs, INDELs and breakends on one chromosome.
UInterval ==
    {Snv("chr1", 40, "G", <<>>, ""),
     Snv("chr1", 40, "G", <<"q10">>, ""),
     Indel("chr1", 40, <<>>),
     Indel("chr1", 80, <<>>),
     Bnd("chr1", 40, BndAfter, <<>>, <<>>),
     Bnd("chr1", 80, BndAfter, <<-45, 45>>, <<>>)}

\* Records whose confidence interval is (lo, hi) for every lo, hi up to
\* MaxCoord: get_conf_interval of a breakend with END and no CIPOS/CIEND.
UScore ==
    {Bnd("chr1", lo, BndAfter, <<>>, <<hi>>) : lo \in 1..MaxCoord, hi \in 1..MaxCoord}

\* --------------------------------------------------------- specifications

Next ==
    \/ InitSNVIterator
    \/ NextRecord
    \/ Candidate
    \/ AppendMatch
    \/ PassReturn
    \/ Summary

Init == InitWith(UMain, "parse")

\* parseVCFs on two sorted files holding every kind of record.
Spec == Init /\ [][Next]_vars

InitInterval == InitWith(UInterval, "parse")

\* parseVCFs on two sorted files of SNVs, INDELs and breakends.
SpecInterval == InitInterval /\ [][Next]_vars

NextFast ==
    \/ InitSNVIterator
    \/ NextRecord
    \/ Candidate
    \/ AppendMatch
    \/ CursorNext
    \/ CursorStop
    \/ CursorExit
    \/ PassReturn

InitFast == InitWith(UFast, "equiv")

\* compareVCFs(A, B, faster_snv=True), then compareVCFs(A, B) on the same
\* files.
SpecFast == InitFast /\ [][NextFast]_vars

\* Variant.interval_score of the pair (A[1], B[1]): the score is written to
\* report, a failed assertion ends the run.
ScorePair ==
    /\ pc = "score"
    /\ LET s == interval_score(A[1], B[1])
       IN  IF s.ok
           THEN /\ report' = <<s>>
                /\ pc' = "done"
                /\ err' = err
           ELSE /\ err' = "AssertionError"
                /\ pc' = "error"
                /\ report' = report
    /\ UNCHANGED <<A, B, mode, pass, i, vtype, variant, match, cands, used,
                   snv_recB, it, stopped, cmp, res1, warned>>

InitScore ==
    /\ A \in {<<r>> : r \in UScore}
    /\ B \in {<<r>> : r \in UScore}
    /\ mode = "score"
    /\ pass = 1
    /\ pc = "score"
    /\ i = 1
    /\ vtype = ""
    /\ variant = <<>>
    /\ match = FALSE
    /\ cands = <<>>
    /\ used = {}
    /\ snv_recB = <<>>
    /\ it = 0
    /\ stopped = FALSE
    /\ cmp = EmptyComparison
    /\ res1 = EmptyComparison
    /\ report = <<>>
    /\ warned = {}
    /\ err = ""

NextScore == ScorePair

\* interval_score applied to every pair of intervals within the bound.
SpecScore == InitScore /\ [][NextScore]_vars


\* ------------------------------------------------- vocabulary of the claims

\* The type tag of a record: SNV, INDEL, SV (breakend) or CNV.
TypeTag(rec) ==
    IF is_snp(rec) THEN "SNV"
    ELSE IF is_indel(rec) THEN "INDEL"
    ELSE IF is_sv(rec) /\ rec.SVTYPE = "BND" THEN "SV"
    ELSE IF is_sv(rec) /\ rec.SVTYPE = "CNV" THEN "CNV"
    ELSE ""

RecordsOfType(f, vt) == SelectSeq(f, LAMBDA r : TypeTag(r) = vt)

InSeq(x, s) == \E k \in DOMAIN s : s[k] = x

RemoveAt(s, f) == [k \in 1..(Len(s) - 1) |-> IF k < f THEN s[k] ELSE s[k + 1]]

SetMin(S) == CHOOSE x \in S : \A y \in S : x <= y

\* The candidates of the sequence q that recA can match, in the order of q.
EligibleIn(recA, q) == SelectSeq(q, LAMBDA b : vcfVariantMatch(recA, b))

\* What the region query of recA returns from the other file.
Query(recA, vt) ==
    Fetch(Dst, recA.CHROM, QueryWindow(recA, vt)[1], QueryWindow(recA, vt)[2])

\* The sv_uid of the records that the first k - 1 Match entries of the list
\* of vt hold as recB.
ClaimedBefore(vt, k) ==
    {sv_uid(cmp[vt][j].recB[1]) : j \in {j \in 1..(k - 1) : matched(cmp[vt][j])}}

\* The Match that "first unclaimed eligible candidate wins, every other
\* eligible candidate goes to altmatch in query order" prescribes for recA,
\* when E are the eligible candidates and claimed the identities taken.
Prescribed(recA, E, claimed) ==
    LET free == {f \in DOMAIN E : sv_uid(E[f]) \notin claimed}
    IN  IF free = {}
        THEN [recA |-> recA, recB |-> <<>>, altmatch |-> E]
        ELSE [recA |-> recA, recB |-> <<E[SetMin(free)]>>,
              altmatch |-> RemoveAt(E, SetMin(free))]

\* ------------------------------------------------------------------ claims

\* C1: for all coordinate-sorted inputs and every variant type, the A->B pass
\* and the B->A pass count the same number of matched records, so summary
\* never warns that the overlap was not symmetric.
C1_SymmetricMatchedCount ==
    (mode = "parse" /\ pc = "done") =>
        /\ \A vt \in VTypes : count_matched(res1, vt) = count_matched(cmp, vt)
        /\ warned = {}

\* C2: comparing a file with itself, every record is matched to itself and
\* for every variant type the summary reports A_only = 0, B_only = 0,
\* shared = sum_score = the number of records of that type.
C2_SelfComparison ==
    (mode = "parse" /\ A = B /\ pc \in {"done", "error"}) =>
        /\ pc = "done"
        /\ \A vt \in VTypes :
              LET n   == Len(RecordsOfType(A, vt))
                  row == report[1][vt]
              IN  /\ row.A_only = 0
                  /\ row.B_only = 0
                  /\ row.shared = n
                  /\ row.sum_score = <<n, 1>>
                  /\ \A k \in DOMAIN res1[vt] :
                        res1[vt][k].recB = <<res1[vt][k].recA>>

\* C3: within one pass, a source-B record that an earlier interval record
\* took as recB is never the recB of a later interval record, and a later
\* record that could match it holds it in altmatch.
C3_DedupLedger ==
    mode = "parse" =>
        \A vt \in IntervalTypes : \A j, k \in DOMAIN cmp[vt] :
            (j < k /\ matched(cmp[vt][j])) =>
                LET b == cmp[vt][j].recB[1]
                    m == cmp[vt][k]
                IN  /\ m.recB # <<b>>
                    /\ InSeq(b, EligibleIn(m.recA, Query(m.recA, vt)))
                          => InSeq(b, m.altmatch)

\* C3 witness: two interval records of one pass could take the same record;
\* the first holds it as recB, the second in altmatch.
C3_Witness ==
    /\ mode = "parse"
    /\ \E vt \in IntervalTypes : \E j, k \in DOMAIN cmp[vt] :
          /\ j < k
          /\ cmp[vt][j].recA # cmp[vt][k].recA
          /\ matched(cmp[vt][j])
          /\ InSeq(cmp[vt][j].recB[1], cmp[vt][k].altmatch)

\* C4: on the region-query path, at every step of the candidate loop and in
\* every finished Match, recB is the first eligible candidate seen so far
\* that was not claimed and altmatch holds every other eligible candidate
\* seen so far in query order; so recB, once set, is never replaced.
C4_FirstCandidateWins ==
    mode = "parse" =>
        /\ \A vt \in VTypes : \A k \in DOMAIN cmp[vt] :
              LET recA == cmp[vt][k].recA
              IN  cmp[vt][k] =
                      Prescribed(recA, EligibleIn(recA, Query(recA, vt)),
                                 IF vt \in IntervalTypes
                                 THEN ClaimedBefore(vt, k) ELSE {})
        /\ pc = "fetch" =>
              LET recA == variant[1].recA
                  q    == Query(recA, vtype)
                  seen == SubSeq(q, 1, Len(q) - Len(cands))
              IN  variant[1] =
                      Prescribed(recA, EligibleIn(recA, seen),
                                 IF vtype \in IntervalTypes
                                 THEN ClaimedBefore(vtype, Len(cmp[vtype]) + 1)
                                 ELSE {})

\* C4 witness: a finished Match whose record had two eligible unclaimed
\* candidates b1, b2: recB = b1 and altmatch = <<b2>>.
C4_Witness ==
    /\ mode = "parse"
    /\ \E vt \in VTypes : \E k \in DOMAIN cmp[vt] :
          LET m == cmp[vt][k]
              E == EligibleIn(m.recA, Query(m.recA, vt))
          IN  /\ Len(E) = 2
              /\ E[1] # E[2]
              /\ vt \in IntervalTypes =>
                    /\ sv_uid(E[1]) \notin ClaimedBefore(vt, k)
                    /\ sv_uid(E[2]) \notin ClaimedBefore(vt, k)
              /\ m.recB = <<E[1]>>
              /\ m.altmatch = <<E[2]>>


\* C5: for coordinate-sorted files, the pass with faster_snv=True yields the
\* same SNV Match entries (recA, recB, altmatch, in the same order) as the
\* pass with faster_snv=False on the same files, whenever both return.
C5_FasterEqualsFallback ==
    (mode = "equiv" /\ pc = "done") => res1["SNV"] = cmp["SNV"]

\* C6: when a pass returns, the list of every variant type holds exactly one
\* Match per source record of that type, in source order, and the lists
\* together hold as many Match entries as the source has records.
C6_OneMatchPerRecord ==
    (mode = "parse" /\ pc = "for" /\ i > Len(Src)) =>
        /\ \A vt \in VTypes :
              [k \in DOMAIN cmp[vt] |-> cmp[vt][k].recA] = RecordsOfType(Src, vt)
        /\ Len(cmp["SNV"]) + Len(cmp["INDEL"]) + Len(cmp["SV"]) + Len(cmp["CNV"])
              = Len(Src)

\* C7: every agreement metric of the summary counts matched entries of the
\* A->B result only: none exceeds the shared count, and agree_pass,
\* agree_fail and disagree_pass add up to it.
C7_AgreementOverMatchedOnly ==
    (mode = "parse" /\ pc = "done") =>
        \A vt \in VTypes :
            LET row == report[1][vt]
            IN  /\ row.agree_somatic <= row.shared
                /\ row.agree_germline <= row.shared
                /\ row.disagree_somatic <= row.shared
                /\ row.agree_pass <= row.shared
                /\ row.agree_fail <= row.shared
                /\ row.disagree_pass <= row.shared
                /\ row.agree_fail = count_agree_fail_matched_only(res1, vt)
                /\ row.agree_pass + row.agree_fail + row.disagree_pass = row.shared

\* The confidence interval of rec has non-positive width.
BadInterval(rec) ==
    get_conf_interval(rec)[2] <= get_conf_interval(rec)[1]

\* vcfVariantMatch(recA, recB) reaches vcfIntervalMatch, which computes the
\* confidence interval of both records.
IntervalsComputed(recA, recB) ==
    /\ ~(is_snp(recA) /\ is_snp(recB) /\ recA.POS = recB.POS
         /\ recA.REF = recB.REF /\ recA.ALT = recB.ALT)
    /\ ~(is_indel(recA) /\ is_indel(recB)
         /\ recA.REF = recB.REF /\ recA.ALT = recB.ALT)
    /\ is_sv(recA) /\ is_sv(recB)
    /\ recA.SVTYPE = "BND" /\ recB.SVTYPE = "BND"
    /\ orientSV(recA.ALT) = orientSV(recB.ALT)

\* C8: a step of the comparison that computes a confidence interval of
\* non-positive width ends the run with an error.
C8_BadIntervalIsFatal ==
    [][(/\ mode = "parse"
        /\ pc = "fetch"
        /\ cands # <<>>
        /\ IntervalsComputed(variant[1].recA, Head(cands))
        /\ BadInterval(variant[1].recA) \/ BadInterval(Head(cands)))
       => pc' = "error"]_vars

IvA == get_conf_interval(A[1])

IvB == get_conf_interval(B[1])

\* Width of the overlap of IvA and IvB, 0 or less when they do not overlap.
OverlapWidth == Min(IvA[2], IvB[2]) - Max(IvA[1], IvB[1])

\* C9: for two intervals of positive width that overlap by w > 0, the
\* unweighted interval_score is 2w / (lenA + lenB), lies in (0, 1], and is 1
\* exactly when the intervals are identical.
C9_IntervalScore ==
    (/\ mode = "score" /\ pc # "score"
     /\ IvA[2] > IvA[1] /\ IvB[2] > IvB[1] /\ OverlapWidth > 0) =>
        /\ pc = "done"
        /\ report[1].num * ((IvA[2] - IvA[1]) + (IvB[2] - IvB[1]))
              = 2 * OverlapWidth * report[1].den
        /\ 0 < report[1].num
        /\ report[1].num <= report[1].den
        /\ (report[1].num = report[1].den) <=> (IvA = IvB)

\* C9 witness: two different intervals that overlap were scored below 1.
C9_Witness ==
    /\ mode = "score" /\ pc = "done"
    /\ IvA # IvB
    /\ OverlapWidth > 0
    /\ report[1].num < report[1].den

\* C10: in the pass with faster_snv=True, once h_snv_vcfB has run out no
\* error is raised and every SNV Match appended from then on is unmatched.
C10_ExhaustionIsSilent ==
    [][(Faster /\ stopped) =>
          /\ err' = ""
          /\ Len(cmp'["SNV"]) > Len(cmp["SNV"])
                => ~matched(cmp'["SNV"][Len(cmp'["SNV"])])]_vars

\* C11: for all coordinate-sorted inputs and every variant type, the counts
\* of the summary are consistent and non-negative: shared is the A->B matched
\* count, A_only is the number of A records of the type minus shared, B_only
\* is the number of B records of the type minus shared, and neither is
\* negative (the A->B matched count never exceeds the number of B records of
\* the type).
C11_CountsConsistent ==
    (mode = "parse" /\ pc = "done") =>
        \A vt \in VTypes :
            LET row == report[1][vt]
            IN  /\ row.shared = count_matched(res1, vt)
                /\ row.A_only = Len(RecordsOfType(A, vt)) - row.shared
                /\ row.B_only = Len(RecordsOfType(B, vt)) - row.shared
                /\ row.A_only >= 0
                /\ row.B_only >= 0

=============================================================================
